---- MODULE Spec2Model ----
(***************************************************************************)
(* Model of static/script.js: the research page's DOM state, the user     *)
(* listeners (input, click, keyup), the five socket event handlers and    *)
(* the report renderer.  Strings that the code inspects character by      *)
(* character (the topic, the report, the rendered HTML) are sequences of  *)
(* one-character strings; texts the code only stores are TLA+ strings.    *)
(***************************************************************************)
EXTENDS Integers, Sequences, FiniteSets, TLC

\* ---------------------------------------------------------------- strings

\* white space as String.prototype.trim sees it, within the model's alphabet
IsWhiteSpace(c) == c \in {" ", "\n"}

RECURSIVE trimStart(_)
trimStart(s) ==
    IF s # <<>> /\ IsWhiteSpace(Head(s)) THEN trimStart(Tail(s)) ELSE s

RECURSIVE trimEnd(_)
trimEnd(s) ==
    IF s # <<>> /\ IsWhiteSpace(s[Len(s)])
    THEN trimEnd(SubSeq(s, 1, Len(s) - 1))
    ELSE s

\* no trimming at all: the test  if (!topic)
trim_none(s) == s

\* String.prototype.trim
trim(s) == trimEnd(trimStart(s))

\* String.prototype.startsWith
startsWith(s, p) == Len(s) >= Len(p) /\ SubSeq(s, 1, Len(p)) = p

\* String.prototype.substring(n): the text after the first n characters
substring(s, n) == SubSeq(s, (IF n < Len(s) THEN n ELSE Len(s)) + 1, Len(s))

\* position of the first occurrence of sep in s at or after from, 0 if none
RECURSIVE indexOf(_, _, _)
indexOf(s, sep, from) ==
    IF from + Len(sep) - 1 > Len(s) THEN 0
    ELSE IF SubSeq(s, from, from + Len(sep) - 1) = sep THEN from
    ELSE indexOf(s, sep, from + 1)

\* String.prototype.split(sep) for a non-empty separator
RECURSIVE split(_, _)
split(s, sep) ==
    LET i == indexOf(s, sep, 1)
    IN  IF i = 0 THEN <<s>>
        ELSE <<SubSeq(s, 1, i - 1)>> \o split(SubSeq(s, i + Len(sep), Len(s)), sep)

\* ------------------------------------------------------------ renderReport

StrongOpen ==
    <<"<", "s", "t", "r", "o", "n", "g", " ", "c", "l", "a", "s", "s", "=", "\"", "f", "o", "n", "t", "-", "s", "e", "m", "i", "b", "o", "l", "d", " ", "t", "e", "x", "t", "-", "g", "r", "a", "y", "-", "9", "0", "0", " ", "d", "a", "r", "k", ":", "t", "e", "x", "t", "-", "g", "r", "a", "y", "-", "1", "0", "0", "\"", ">">>

StrongClose ==
    <<"<", "/", "s", "t", "r", "o", "n", "g", ">">>

EmOpen ==
    <<"<", "e", "m", ">">>

EmClose ==
    <<"<", "/", "e", "m", ">">>

H3Open ==
    <<"<", "h", "3", " ", "c", "l", "a", "s", "s", "=", "\"", "t", "e", "x", "t", "-", "x", "l", " ", "f", "o", "n", "t", "-", "b", "o", "l", "d", " ", "m", "b", "-", "2", " ", "m", "t", "-", "4", " ", "t", "e", "x", "t", "-", "g", "r", "a", "y", "-", "1", "0", "0", "\"", ">">>

H3Close ==
    <<"<", "/", "h", "3", ">">>

H2Open ==
    <<"<", "h", "2", " ", "c", "l", "a", "s", "s", "=", "\"", "t", "e", "x", "t", "-", "2", "x", "l", " ", "f", "o", "n", "t", "-", "b", "o", "l", "d", " ", "m", "b", "-", "3", " ", "m", "t", "-", "5", " ", "t", "e", "x", "t", "-", "w", "h", "i", "t", "e", " ", "b", "o", "r", "d", "e", "r", "-", "b", " ", "b", "o", "r", "d", "e", "r", "-", "z", "i", "n", "c", "-", "7", "0", "0", " ", "p", "b", "-", "2", "\"", ">">>

H2Close ==
    <<"<", "/", "h", "2", ">">>

H1Open ==
    <<"<", "h", "1", " ", "c", "l", "a", "s", "s", "=", "\"", "t", "e", "x", "t", "-", "3", "x", "l", " ", "f", "o", "n", "t", "-", "b", "o", "l", "d", " ", "m", "b", "-", "4", " ", "m", "t", "-", "6", " ", "t", "e", "x", "t", "-", "w", "h", "i", "t", "e", "\"", ">">>

H1Close ==
    <<"<", "/", "h", "1", ">">>

LiOpen ==
    <<"<", "l", "i", " ", "c", "l", "a", "s", "s", "=", "\"", "m", "b", "-", "1", "\"", ">">>

LiClose ==
    <<"<", "/", "l", "i", ">">>

UlOpen ==
    <<"<", "u", "l", " ", "c", "l", "a", "s", "s", "=", "\"", "l", "i", "s", "t", "-", "d", "i", "s", "c", " ", "p", "l", "-", "6", " ", "s", "p", "a", "c", "e", "-", "y", "-", "1", " ", "m", "y", "-", "4", "\"", ">">>

UlClose ==
    <<"<", "/", "u", "l", ">">>

POpen ==
    <<"<", "p", " ", "c", "l", "a", "s", "s", "=", "\"", "m", "b", "-", "4", " ", "t", "e", "x", "t", "-", "g", "r", "a", "y", "-", "3", "0", "0", " ", "l", "e", "a", "d", "i", "n", "g", "-", "r", "e", "l", "a", "x", "e", "d", "\"", ">">>

PClose ==
    <<"<", "/", "p", ">">>

\* the literal delimiter of d asterisks
Stars(d) == [k \in 1..d |-> "*"]

\* the same search with a '.' that also matches "\n" (the s flag)
RECURSIVE closeAt_dotAll(_, _, _)
closeAt_dotAll(s, d, from) ==
    IF from + d - 1 > Len(s) THEN 0
    ELSE IF SubSeq(s, from, from + d - 1) = Stars(d) THEN from
    ELSE closeAt_dotAll(s, d, from + 1)

\* /(.*?)\*{d}/ tried at position from: the position of the closing
\* delimiter nearest to from with no line break before it, 0 if none
\* ('.' does not match "\n")
RECURSIVE closeAt(_, _, _)
closeAt(s, d, from) ==
    IF from + d - 1 > Len(s) THEN 0
    ELSE IF SubSeq(s, from, from + d - 1) = Stars(d) THEN from
    ELSE IF s[from] = "\n" THEN 0
    ELSE closeAt(s, d, from + 1)

\* leftmost position at or after from where /\*{d}(.*?)\*{d}/ matches
RECURSIVE matchAt(_, _, _)
matchAt(s, d, from) ==
    IF from + d - 1 > Len(s) THEN 0
    ELSE IF SubSeq(s, from, from + d - 1) = Stars(d) /\ closeAt(s, d, from + d) # 0
         THEN from
    ELSE matchAt(s, d, from + 1)

\* s.replace(/\*{d}(.*?)\*{d}/g, open + '$1' + close)
RECURSIVE replaceAll(_, _, _, _)
replaceAll(s, d, open, close) ==
    LET i == matchAt(s, d, 1)
        j == closeAt(s, d, i + d)
    IN  IF i = 0 THEN s
        ELSE SubSeq(s, 1, i - 1) \o open \o SubSeq(s, i + d, j - 1) \o close
             \o replaceAll(SubSeq(s, j + d, Len(s)), d, open, close)

\* the two emphasis passes over the whole report
formatInline(report) ==
    replaceAll(replaceAll(report, 2, StrongOpen, StrongClose), 1, EmOpen, EmClose)

\* one <li> per line of a bullet block
RECURSIVE renderItems(_)
renderItems(lines) ==
    IF lines = <<>> THEN <<>>
    ELSE LiOpen \o substring(Head(lines), 2) \o LiClose \o renderItems(Tail(lines))

\* a callback that tests the heading prefixes without their trailing blank
renderBlock_noBlank(block) ==
    IF startsWith(block, <<"#", "#", "#">>)
        THEN H3Open \o substring(block, 4) \o H3Close
    ELSE IF startsWith(block, <<"#", "#">>)
        THEN H2Open \o substring(block, 3) \o H2Close
    ELSE IF startsWith(block, <<"#">>)
        THEN H1Open \o substring(block, 2) \o H1Close
    ELSE IF startsWith(block, <<"-", " ">>)
        THEN UlOpen \o renderItems(split(block, <<"\n">>)) \o UlClose
    ELSE POpen \o block \o PClose

\* the callback of html.split('\n\n').map(...)
renderBlock(block) ==
    IF startsWith(block, <<"#", "#", "#", " ">>)
        THEN H3Open \o substring(block, 4) \o H3Close
    ELSE IF startsWith(block, <<"#", "#", " ">>)
        THEN H2Open \o substring(block, 3) \o H2Close
    ELSE IF startsWith(block, <<"#", " ">>)
        THEN H1Open \o substring(block, 2) \o H1Close
    ELSE IF startsWith(block, <<"-", " ">>)
        THEN UlOpen \o renderItems(split(block, <<"\n">>)) \o UlClose
    ELSE POpen \o block \o PClose

RECURSIVE renderBlocks(_)
renderBlocks(blocks) ==
    IF blocks = <<>> THEN <<>>
    ELSE renderBlock(Head(blocks)) \o renderBlocks(Tail(blocks))

\* the value of html at the end of renderReport's first two statements
reportBody(report) ==
    renderBlocks(split(formatInline(report), <<"\n", "\n">>))

\* ------------------------------------------------------------------ inputs

\* topics the user can type: empty, blank, a word padded with blanks
Topics == { <<>>, <<" ">>, <<" ", "b", " ">> }

\* keys whose release reaches the keyup listener
Keys == {"Enter", "a"}

\* payloads of status_update and research_error
StatusMessages == {"Planning sub-topics..."}
ErrorMessages == {"timeout", "quota exceeded"}

\* payloads of sub_topics_generated: no plan, one sub-topic, two sub-topics
SubTopicLists ==
    { <<>>,
      <<[topic |-> "x"]>>,
      <<[topic |-> "y"], [topic |-> "x"]>> }

\* payloads of sub_topic_update: indices from -1 to MaxIndex, the four known
\* statuses and an unknown one
MaxIndex == 1
Indices == -1..MaxIndex
Statuses == {"pending", "in-progress", "complete", "error", "done"}

\* report texts for the renderer on its own: every text of at most
\* MaxReportLen characters over the markers, a letter and an angle bracket
MaxReportLen == 5
ReportAlphabet == {"#", "-", " ", "*", "\n", "a", "<"}
ReportTexts == UNION { [1..n -> ReportAlphabet] : n \in 0..MaxReportLen }

\* payloads of final_report
Reports ==
    { <<"#", " ", "T", "\n", "\n", "-", " ", "*", "*", "b", "*", "*", "\n", "*", "e", "*">> }

\* ------------------------------------------------------------------- state

VARIABLES
    dom,            \* the six elements the script looks up (lines 5-10)
    currentTopic,   \* line 12
    emitted,        \* messages passed to socket.emit by the last handler run
    lastEvent       \* the listener or socket handler that ran last

vars == <<dom, currentTopic, emitted, lastEvent>>

\* innerHTML = ''
NoHTML == <<>>

\* ----------------------------------------------------------- DOM operations

\* a setUIState that forgets to restore the button's label and cursor
setUIState_stickyLabel(d, isResearching) ==
    [d EXCEPT
        !.topicInput.disabled = isResearching,
        !.startResearchBtn =
            [disabled |-> isResearching \/ trim(d.topicInput.value) = <<>>,
             researching |-> isResearching \/ d.startResearchBtn.researching]]

\* setUIState: the input, the button's disabled flag, its cursor-wait class
\* and its label
setUIState(d, isResearching) ==
    [d EXCEPT
        !.topicInput.disabled = isResearching,
        !.startResearchBtn =
            [disabled |-> isResearching \/ trim(d.topicInput.value) = <<>>,
             researching |-> isResearching]]

\* assigning textContent replaces the element's children, the dot included
setStatusText(d, text) ==
    [d EXCEPT !.statusMessage = [textContent |-> text, span |-> "none"]]

\* a resetUI that leaves the report on the page
resetUI_keepReport(d) ==
    setUIState(
        setStatusText(
            [d EXCEPT
                !.errorMessage = "",
                !.subtopicListContainer = NoHTML],
            "Ready to start your research."),
        FALSE)

resetUI(d) ==
    setUIState(
        setStatusText(
            [d EXCEPT
                !.errorMessage = "",
                !.subtopicListContainer = NoHTML,
                !.reportContainer = [innerHTML |-> NoHTML, display |-> "none"]],
            "Ready to start your research."),
        FALSE)

\* setStatusColor: recolours the dot when #status-message still has one
setStatusColor(d, cls) ==
    IF d.statusMessage.span # "none"
    THEN [d EXCEPT !.statusMessage.span = cls]
    ELSE d

\* a renderSubTopicList that keeps the status of rows present before
renderSubTopicList_merge(d, subTopics) ==
    [d EXCEPT !.subtopicListContainer =
        [ul |-> [k \in 1..Len(subTopics) |->
                    [topic |-> subTopics[k].topic,
                     status |-> IF /\ d.subtopicListContainer # NoHTML
                                   /\ k <= Len(d.subtopicListContainer.ul)
                                THEN d.subtopicListContainer.ul[k].status
                                ELSE "pending"]]]]

\* a renderSubTopicList that only fills a panel that is still empty
renderSubTopicList_keepExisting(d, subTopics) ==
    IF d.subtopicListContainer # NoHTML THEN d
    ELSE [d EXCEPT !.subtopicListContainer =
            [ul |-> [k \in 1..Len(subTopics) |->
                        [topic |-> subTopics[k].topic, status |-> "pending"]]]]

\* renderSubTopicList: the panel becomes one <ul id="subtopics-ul"> with one
\* row per sub-topic, each showing "pending"
renderSubTopicList(d, subTopics) ==
    [d EXCEPT !.subtopicListContainer =
        [ul |-> [k \in 1..Len(subTopics) |->
                    [topic |-> subTopics[k].topic, status |-> "pending"]]]]

\* statusInfo: the row text of each known status
statusInfo ==
    [s \in {"pending", "in-progress", "complete", "error"} |->
        IF s = "in-progress" THEN "in progress" ELSE s]

\* ul.children[index] of the element with id subtopics-ul, for 0-based index
hasChild(d, index) ==
    /\ d.subtopicListContainer # NoHTML
    /\ index >= 0
    /\ index < Len(d.subtopicListContainer.ul)

\* an update that falls back to the last row:  ul.children[index] || ul.lastElementChild
updateSubTopicStatus_lastRow(d, index, status) ==
    IF d.subtopicListContainer = NoHTML \/ Len(d.subtopicListContainer.ul) = 0 THEN d
    ELSE IF status \in DOMAIN statusInfo
    THEN LET i == IF hasChild(d, index) THEN index
                  ELSE Len(d.subtopicListContainer.ul) - 1
         IN  [d EXCEPT !.subtopicListContainer.ul[i + 1].status = statusInfo[status]]
    ELSE d

\* an update that restyles every row of the list
updateSubTopicStatus_allRows(d, index, status) ==
    IF ~hasChild(d, index) THEN d
    ELSE IF status \in DOMAIN statusInfo
    THEN [d EXCEPT !.subtopicListContainer.ul =
            [k \in DOMAIN d.subtopicListContainer.ul |->
                [d.subtopicListContainer.ul[k] EXCEPT !.status = statusInfo[status]]]]
    ELSE d

\* an update that shows an unknown status as an error:  statusInfo[status] || statusInfo.error
updateSubTopicStatus_unknownAsError(d, index, status) ==
    IF ~hasChild(d, index) THEN d
    ELSE [d EXCEPT !.subtopicListContainer.ul[index + 1].status =
            IF status \in DOMAIN statusInfo THEN statusInfo[status] ELSE "error"]

\* an update that never moves a row back to pending
updateSubTopicStatus_forwardOnly(d, index, status) ==
    IF ~hasChild(d, index) THEN d
    ELSE IF status \in DOMAIN statusInfo /\ status # "pending"
    THEN [d EXCEPT !.subtopicListContainer.ul[index + 1].status = statusInfo[status]]
    ELSE d

updateSubTopicStatus(d, index, status) ==
    IF ~hasChild(d, index) THEN d
    ELSE IF status \in DOMAIN statusInfo
    THEN [d EXCEPT !.subtopicListContainer.ul[index + 1].status = statusInfo[status]]
    ELSE d

\* the body of every report of Reports, computed once
renderedReports == [r \in Reports |-> reportBody(r)]

\* the value of html for a report, from the table when it has it
htmlOf(report) ==
    IF report \in DOMAIN renderedReports THEN renderedReports[report]
    ELSE reportBody(report)

\* a renderReport that titles the report with the text in the input
renderReport_inputTitle(d, report, topic) ==
    [d EXCEPT !.reportContainer =
        [innerHTML |-> [title |-> d.topicInput.value, html |-> htmlOf(report)],
         display |-> "block"]]

\* renderReport: title and body into the report container, then shown
renderReport(d, report, topic) ==
    [d EXCEPT !.reportContainer =
        [innerHTML |-> [title |-> topic, html |-> htmlOf(report)],
         display |-> "block"]]

\* what lastEvent remembers of the page a handler started from
hasStartedRow(d) ==
    /\ d.subtopicListContainer # NoHTML
    /\ \E k \in DOMAIN d.subtopicListContainer.ul :
            d.subtopicListContainer.ul[k].status # "pending"

hasLeftovers(d) ==
    /\ d.errorMessage # ""
    /\ d.subtopicListContainer # NoHTML
    /\ d.reportContainer.display = "block"

\* -------------------------------------------------------------------- Init

\* the page after DOMContentLoaded: the markup's empty panels, then
\* setUIState(false) (line 45); the page may or may not carry a status dot
Init ==
    /\ \E span \in {"none", "initial"} :
        dom = setUIState(
                [topicInput |-> [value |-> <<>>, disabled |-> FALSE],
                 startResearchBtn |-> [disabled |-> FALSE, researching |-> FALSE],
                 errorMessage |-> "",
                 statusMessage |-> [textContent |-> "Ready to start your research.",
                                    span |-> span],
                 subtopicListContainer |-> NoHTML,
                 reportContainer |-> [innerHTML |-> NoHTML, display |-> "none"]],
                FALSE)
    /\ currentTopic = <<>>
    /\ emitted = <<>>
    /\ lastEvent = [type |-> "load"]

\* ----------------------------------------------------------------- actions

\* topicInput 'input' listener (line 46): the user changed the text
input(value) ==
    /\ ~dom.topicInput.disabled
    /\ value # dom.topicInput.value
    /\ dom' = setUIState([dom EXCEPT !.topicInput.value = value], FALSE)
    /\ emitted' = <<>>
    /\ lastEvent' = [type |-> "input"]
    /\ UNCHANGED currentTopic

\* startResearch sending the request before and after the reset
startResearch_emitTwice ==
    LET topic == dom.topicInput.value
    IN  IF trim(topic) = <<>>
        THEN /\ dom' = [dom EXCEPT !.errorMessage = "Please enter a research topic."]
             /\ emitted' = <<>>
             /\ lastEvent' = [type |-> "startResearch", valid |-> FALSE,
                              busy |-> dom.topicInput.disabled]
             /\ UNCHANGED currentTopic
        ELSE /\ currentTopic' = topic
             /\ dom' = setUIState(resetUI(dom), TRUE)
             /\ emitted' = <<[event |-> "start_research", topic |-> topic],
                             [event |-> "start_research", topic |-> topic]>>
             /\ lastEvent' = [type |-> "startResearch", valid |-> TRUE,
                              busy |-> dom.topicInput.disabled,
                              cleared |-> hasLeftovers(dom)]

\* startResearch (lines 152-163)
startResearch ==
    LET topic == dom.topicInput.value
    IN  IF trim(topic) = <<>>
        THEN /\ dom' = [dom EXCEPT !.errorMessage = "Please enter a research topic."]
             /\ emitted' = <<>>
             /\ lastEvent' = [type |-> "startResearch", valid |-> FALSE,
                              busy |-> dom.topicInput.disabled]
             /\ UNCHANGED currentTopic
        ELSE /\ currentTopic' = topic
             /\ dom' = setUIState(resetUI(dom), TRUE)
             /\ emitted' = <<[event |-> "start_research", topic |-> topic]>>
             /\ lastEvent' = [type |-> "startResearch", valid |-> TRUE,
                              busy |-> dom.topicInput.disabled,
                              cleared |-> hasLeftovers(dom)]

\* click listener of the button (line 165); a disabled button gets no click
click ==
    /\ ~dom.startResearchBtn.disabled
    /\ startResearch

\* keyup listener of the input (lines 166-168); a disabled input gets no key
keyup(key) ==
    /\ ~dom.topicInput.disabled
    /\ IF key = "Enter"
       THEN startResearch
       ELSE /\ lastEvent' = [type |-> "keyup"]
            /\ emitted' = <<>>
            /\ UNCHANGED <<dom, currentTopic>>

\* the keyup listener run by an event that script dispatched on the input
\* while it is disabled
keyupDispatched ==
    /\ dom.topicInput.disabled
    /\ startResearch

status_update(message) ==
    /\ dom' = setStatusText(dom, message)
    /\ emitted' = <<>>
    /\ lastEvent' = [type |-> "status_update", message |-> message]
    /\ UNCHANGED currentTopic

\* a sub_topics_generated handler that also restores the controls
sub_topics_generated_enables(sub_topics) ==
    /\ dom' = setUIState(
                renderSubTopicList(setStatusColor(dom, "bg-sky-500"), sub_topics),
                FALSE)
    /\ emitted' = <<>>
    /\ lastEvent' = [type |-> "sub_topics_generated", sub_topics |-> sub_topics,
                     replaced |-> hasStartedRow(dom)]
    /\ UNCHANGED currentTopic

sub_topics_generated(sub_topics) ==
    /\ dom' = renderSubTopicList(setStatusColor(dom, "bg-sky-500"), sub_topics)
    /\ emitted' = <<>>
    /\ lastEvent' = [type |-> "sub_topics_generated", sub_topics |-> sub_topics,
                     replaced |-> hasStartedRow(dom)]
    /\ UNCHANGED currentTopic

sub_topic_update(index, status) ==
    /\ dom' = updateSubTopicStatus(dom, index, status)
    /\ emitted' = <<>>
    /\ lastEvent' = [type |-> "sub_topic_update",
                     index |-> index, status |-> status,
                     wasStarted |-> hasStartedRow(dom)]
    /\ UNCHANGED currentTopic

\* a final_report handler without the closing setUIState(false)
final_report_noUIState(report) ==
    /\ dom' = setStatusColor(renderReport(dom, report, currentTopic), "bg-emerald-500")
    /\ emitted' = <<>>
    /\ lastEvent' = [type |-> "final_report", report |-> report]
    /\ UNCHANGED currentTopic

\* a final_report handler that also clears the sub-topic panel
final_report_clearPanel(report) ==
    /\ dom' = setUIState(
                setStatusColor(
                    renderReport([dom EXCEPT !.subtopicListContainer = NoHTML],
                                 report, currentTopic),
                    "bg-emerald-500"),
                FALSE)
    /\ emitted' = <<>>
    /\ lastEvent' = [type |-> "final_report", report |-> report]
    /\ UNCHANGED currentTopic

final_report(report) ==
    /\ dom' = setUIState(
                setStatusColor(renderReport(dom, report, currentTopic),
                               "bg-emerald-500"),
                FALSE)
    /\ emitted' = <<>>
    /\ lastEvent' = [type |-> "final_report", report |-> report]
    /\ UNCHANGED currentTopic

\* a research_error handler that keeps the last status text
research_error_keepStatus(error) ==
    /\ dom' = setUIState(
                setStatusColor([dom EXCEPT !.errorMessage = error], "bg-rose-500"),
                FALSE)
    /\ emitted' = <<>>
    /\ lastEvent' = [type |-> "research_error", error |-> error]
    /\ UNCHANGED currentTopic

research_error(error) ==
    /\ dom' = setUIState(
                setStatusColor(
                    setStatusText([dom EXCEPT !.errorMessage = error],
                                  "An error occurred."),
                    "bg-rose-500"),
                FALSE)
    /\ emitted' = <<>>
    /\ lastEvent' = [type |-> "research_error", error |-> error]
    /\ UNCHANGED currentTopic

\* a socket event arrives
SocketEvent ==
    \/ \E m \in StatusMessages : status_update(m)
    \/ \E l \in SubTopicLists : sub_topics_generated(l)
    \/ \E i \in Indices, s \in Statuses : sub_topic_update(i, s)
    \/ \E r \in Reports : final_report(r)
    \/ \E e \in ErrorMessages : research_error(e)

Next ==
    \/ \E v \in Topics : input(v)
    \/ click
    \/ \E k \in Keys : keyup(k)
    \/ SocketEvent

Spec == Init /\ [][Next]_vars

\* the same page when script may also dispatch keyup on the disabled input
NextDispatched == Next \/ keyupDispatched

SpecDispatched == Init /\ [][NextDispatched]_vars

\* the event source ends a running session: a final_report or a
\* research_error reaches the page while it is busy
sessionEnds ==
    /\ dom.topicInput.disabled
    /\ \/ \E r \in Reports : final_report(r)
       \/ \E e \in ErrorMessages : research_error(e)

\* the page with an event source that ends every session it has started
SpecFair == Init /\ [][Next]_vars /\ WF_vars(sessionEnds)

\* the renderer on its own: the first event a fresh page receives is a
\* final_report with an arbitrary text
firstReport ==
    /\ lastEvent.type = "load"
    /\ \E r \in ReportTexts : final_report(r)

NextRender == firstReport

SpecRender == Init /\ [][NextRender]_vars

\* ================================================================== claims

\* a topic made of white space only (or empty), spelled out independently of trim
Blank(s) == \A k \in 1..Len(s) : s[k] = " " \/ s[k] = "\n"

\* the rows renderSubTopicList is expected to make of a planned list
PendingRows(l) == [k \in 1..Len(l) |-> [topic |-> l[k].topic, status |-> "pending"]]

\* C1: whenever startResearch runs on a topic that is not blank, whatever the
\* page showed before (busy or not), the input and the button are disabled
\* and the button shows "Researching...", currentTopic is that topic as
\* typed, and the handler emits exactly one start_research message with it.
C1_SubmitEntersBusyAndEmitsOnce ==
    [][ (lastEvent'.type = "startResearch" /\ ~Blank(dom.topicInput.value)) =>
            /\ dom'.topicInput.disabled
            /\ dom'.startResearchBtn = [disabled |-> TRUE, researching |-> TRUE]
            /\ currentTopic' = dom.topicInput.value
            /\ emitted' = <<[event |-> "start_research",
                             topic |-> dom.topicInput.value]>> ]_vars

\* a submit accepted while the previous session was still busy
C1_Witness ==
    /\ lastEvent.type = "startResearch"
    /\ lastEvent.valid
    /\ lastEvent.busy
    /\ currentTopic = <<" ", "b", " ">>
    /\ Len(emitted) = 1

\* C2: startResearch on an empty or blank topic emits nothing and changes
\* nothing but the error text, which becomes the validation message.
C2_BlankSubmitOnlySetsMessage ==
    [][ (lastEvent'.type = "startResearch" /\ Blank(dom.topicInput.value)) =>
            /\ emitted' = <<>>
            /\ currentTopic' = currentTopic
            /\ dom' = [dom EXCEPT !.errorMessage = "Please enter a research topic."] ]_vars

\* Enter released on a blank, non-empty input while a report is on display
C2_Witness ==
    /\ lastEvent.type = "startResearch"
    /\ ~lastEvent.valid
    /\ dom.topicInput.value = <<" ">>
    /\ dom.errorMessage = "Please enter a research topic."
    /\ dom.reportContainer.display = "block"

\* the statuses an update may name and the text a row shows for each
KnownStatuses == {"pending", "in-progress", "complete", "error"}
RowText(s) == IF s = "in-progress" THEN "in progress" ELSE s

\* the rows of the sub-topic panel
Rows(d) == IF d.subtopicListContainer = NoHTML THEN <<>> ELSE d.subtopicListContainer.ul

\* busy: between an accepted submit and the next final_report or research_error
Busy(d) == d.topicInput.disabled

C4_StatusMonotonic ==
    [][ lastEvent'.type = "sub_topic_update" =>
            \A k \in DOMAIN Rows(dom) :
                /\ Rows(dom)[k].status \in {"complete", "error"} =>
                        Rows(dom')[k].status = Rows(dom)[k].status
                /\ Rows(dom)[k].status = "in progress" =>
                        Rows(dom')[k].status # "pending" ]_vars

\* C4 amended: a sub_topic_update for an existing row and a known status
\* sets that row to the named status whatever the row showed before, so a
\* row can move backward (complete to pending, error to in progress).
C4_StatusFollowsUpdate ==
    [][ ( /\ lastEvent'.type = "sub_topic_update"
          /\ lastEvent'.index >= 0
          /\ lastEvent'.index < Len(Rows(dom))
          /\ lastEvent'.status \in KnownStatuses ) =>
            Rows(dom')[lastEvent'.index + 1].status = RowText(lastEvent'.status) ]_vars

\* a row that went back to pending after an update
C4_Witness ==
    /\ lastEvent.type = "sub_topic_update"
    /\ lastEvent.index = 1
    /\ lastEvent.status = "pending"
    /\ lastEvent.wasStarted
    /\ Len(Rows(dom)) = 2
    /\ \A k \in DOMAIN Rows(dom) : Rows(dom)[k].status = "pending"

\* C5 as claimed: research_error leaves the status line and the sub-topic
\* list as they were.
C5_ErrorKeepsStatusLine ==
    [][ lastEvent'.type = "research_error" =>
            /\ dom'.statusMessage.textContent = dom.statusMessage.textContent
            /\ dom'.subtopicListContainer = dom.subtopicListContainer ]_vars

\* C5 amended: research_error replaces the status line by the fixed text
\* "An error occurred." and leaves the sub-topic list as it was.
C5_ErrorOverwritesStatusLine ==
    [][ lastEvent'.type = "research_error" =>
            /\ dom'.statusMessage.textContent = "An error occurred."
            /\ dom'.subtopicListContainer = dom.subtopicListContainer ]_vars

\* an error shown over a rendered list
C5_Witness ==
    /\ lastEvent.type = "research_error"
    /\ dom.statusMessage.textContent = "An error occurred."
    /\ Len(Rows(dom)) = 2

\* C6: research_error with message m, whatever came before, shows exactly m
\* as the error text, leaves the page not busy (input enabled, button back
\* to "Start Research", disabled only for a blank input) and leaves the
\* sub-topic panel, rows, labels and statuses, as it was.
C6_ErrorShownAndRegistryKept ==
    [][ lastEvent'.type = "research_error" =>
            /\ dom'.errorMessage = lastEvent'.error
            /\ ~dom'.topicInput.disabled
            /\ dom'.startResearchBtn =
                    [disabled |-> Blank(dom.topicInput.value), researching |-> FALSE]
            /\ dom'.subtopicListContainer = dom.subtopicListContainer ]_vars

\* an error that ends a busy session with a started row in the list
C6_Witness ==
    /\ lastEvent.type = "research_error"
    /\ dom.errorMessage = "quota exceeded"
    /\ currentTopic # <<>>
    /\ ~Busy(dom)
    /\ Len(Rows(dom)) = 2
    /\ Rows(dom)[1].status = "in progress"

\* C7: sub_topic_update with an index below 0 or not below the number of
\* rows, also when the panel has no list at all, leaves the panel as it was
\* (so does a repetition of the event).
C7_OutOfRangeUpdateIgnored ==
    [][ ( /\ lastEvent'.type = "sub_topic_update"
          /\ (lastEvent'.index < 0 \/ lastEvent'.index >= Len(Rows(dom))) ) =>
            dom'.subtopicListContainer = dom.subtopicListContainer ]_vars

\* an update for the row after the last one of a started list
C7_Witness ==
    /\ lastEvent.type = "sub_topic_update"
    /\ lastEvent.status = "complete"
    /\ Len(Rows(dom)) = 1
    /\ lastEvent.index = 1
    /\ Rows(dom)[1].status = "in progress"

\* C8: after sub_topics_generated with list L the panel holds exactly one
\* row per element of L, in L's order, with L's labels, every row pending;
\* nothing of the rows shown before survives.
C8_PlanReplacesRegistry ==
    [][ lastEvent'.type = "sub_topics_generated" =>
            /\ Len(Rows(dom')) = Len(lastEvent'.sub_topics)
            /\ \A k \in DOMAIN Rows(dom') :
                    /\ Rows(dom')[k].topic = lastEvent'.sub_topics[k].topic
                    /\ Rows(dom')[k].status = "pending" ]_vars

\* a second plan of two rows rendered over a list that had a started row
C8_Witness ==
    /\ lastEvent.type = "sub_topics_generated"
    /\ lastEvent.replaced
    /\ Busy(dom)
    /\ Len(Rows(dom)) = 2

\* C9: right after an accepted submit the error text is empty, the
\* sub-topic panel is empty and the report container is empty and hidden.
C9_SubmitClearsPanels ==
    [][ (lastEvent'.type = "startResearch" /\ ~Blank(dom.topicInput.value)) =>
            /\ dom'.errorMessage = ""
            /\ dom'.subtopicListContainer = NoHTML
            /\ dom'.reportContainer = [innerHTML |-> NoHTML, display |-> "none"] ]_vars

\* a submit over a page that showed an error, a list and a report
C9_Witness ==
    /\ lastEvent.type = "startResearch"
    /\ lastEvent.valid
    /\ lastEvent.cleared
    /\ dom.errorMessage = ""

\* C10: final_report is accepted in every state: the container shows a
\* report titled with the current topic, the page is no longer busy, and
\* the sub-topic panel is what it was, empty included.
C10_ReportAlwaysAccepted ==
    [][ lastEvent'.type = "final_report" =>
            /\ dom'.reportContainer.display = "block"
            /\ dom'.reportContainer.innerHTML # NoHTML
            /\ dom'.reportContainer.innerHTML.title = currentTopic
            /\ ~dom'.topicInput.disabled
            /\ ~dom'.startResearchBtn.researching
            /\ dom'.subtopicListContainer = dom.subtopicListContainer ]_vars

\* a report shown for a busy session that never received a plan
C10_Witness ==
    /\ lastEvent.type = "final_report"
    /\ currentTopic # <<>>
    /\ dom.subtopicListContainer = NoHTML
    /\ dom.reportContainer.display = "block"
    /\ dom.errorMessage = ""

\* C11: currentTopic changes only in an accepted submit (no socket event, no
\* input or key event and no rejected submit changes it), and every
\* final_report titles the report with it.
C11_TopicSetOnlyBySubmit ==
    [][ /\ (lastEvent'.type # "startResearch" \/ Blank(dom.topicInput.value)) =>
                currentTopic' = currentTopic
        /\ lastEvent'.type = "final_report" =>
                dom'.reportContainer.innerHTML.title = currentTopic ]_vars

\* a late report shown after the user replaced the submitted topic in the input
C11_Witness ==
    /\ lastEvent.type = "final_report"
    /\ dom.reportContainer.innerHTML.title = <<" ", "b", " ">>
    /\ dom.topicInput.value = <<" ">>

\* C12: sub_topic_update for an existing row and a known status changes that
\* row's status to the named one and nothing else: the other rows, every
\* label, the number of rows and the rest of the page stay as they were.
C12_UpdateTouchesOneRow ==
    [][ ( /\ lastEvent'.type = "sub_topic_update"
          /\ lastEvent'.index >= 0
          /\ lastEvent'.index < Len(Rows(dom))
          /\ lastEvent'.status \in KnownStatuses ) =>
            dom' = [dom EXCEPT !.subtopicListContainer.ul[lastEvent'.index + 1].status =
                        RowText(lastEvent'.status)] ]_vars

\* the first of two rows completed while the second stays in progress
C12_Witness ==
    /\ lastEvent.type = "sub_topic_update"
    /\ lastEvent.index = 0
    /\ lastEvent.status = "complete"
    /\ Len(Rows(dom)) = 2
    /\ Rows(dom)[1] = [topic |-> "y", status |-> "complete"]
    /\ Rows(dom)[2] = [topic |-> "x", status |-> "in progress"]

C18_BusyUntilSessionEnds ==
    [][ /\ (lastEvent'.type = "startResearch" /\ ~Blank(dom.topicInput.value)) =>
                (dom'.topicInput.disabled /\ dom'.startResearchBtn.disabled)
        /\ ( /\ dom.topicInput.disabled
             /\ dom.startResearchBtn.disabled
             /\ lastEvent'.type \notin {"final_report", "research_error"} ) =>
                /\ dom'.topicInput.disabled
                /\ dom'.startResearchBtn.disabled
                /\ emitted' = <<>> ]_vars

\* a second plan arrives during a session and the controls stay disabled
C18_Witness ==
    /\ lastEvent.type = "sub_topics_generated"
    /\ lastEvent.replaced
    /\ dom.topicInput.disabled
    /\ dom.startResearchBtn.disabled
    /\ Len(Rows(dom)) = 1

\* C20: when the event source ends every session it has started, every
\* accepted submit is eventually followed by a page that is no longer busy,
\* whatever other events arrive in between.
C20_SubmitEventuallyNotBusy ==
    (lastEvent.type = "startResearch" /\ dom.topicInput.disabled)
        ~> (~dom.topicInput.disabled /\ ~dom.startResearchBtn.researching)

\* a report that ends a session whose first row had failed
C20_Witness ==
    /\ lastEvent.type = "final_report"
    /\ currentTopic # <<>>
    /\ ~dom.topicInput.disabled
    /\ ~dom.startResearchBtn.disabled
    /\ Len(Rows(dom)) = 2
    /\ Rows(dom)[1].status = "error"

\* ------------------------------------------------- claims on the renderer

\* the report a final_report carried and the body it left in the container
ReportIn == lastEvent.report
BodyOut == dom.reportContainer.innerHTML.html

Rendered == lastEvent.type = "final_report"

\* the text after the first n characters
Drop(s, n) == SubSeq(s, n + 1, Len(s))

\* number of characters c in s
Count(s, c) == Cardinality({k \in 1..Len(s) : s[k] = c})

\* number of places where an HTML parser starts a tag: "<" followed by a
\* letter, or by "/" for an end tag
Letters == {"a", "b", "c", "d", "e", "g", "h", "i", "l", "m", "n", "o", "p",
            "r", "s", "t", "u"}
TagStarts(s) ==
    Cardinality({k \in 1..(Len(s) - 1) : s[k] = "<" /\ s[k + 1] \in Letters \cup {"/"}})

\* the report with every angle bracket replaced by a letter: same blocks,
\* same emphasis, no markup of its own
Neutral(r) == [k \in 1..Len(r) |-> IF r[k] = "<" THEN "a" ELSE r[k]]

\* C14 as claimed: the displayed body has no markup but the renderer's own
\* block and emphasis tags: a report with angle brackets starts exactly as
\* many tags as the same report with letters in their place.
C14_NoInjectedMarkup ==
    Rendered => TagStarts(BodyOut) = TagStarts(reportBody(Neutral(ReportIn)))

\* the kind of a raw block, by its prefix
Kind(b) ==
    IF Len(b) >= 4 /\ SubSeq(b, 1, 4) = <<"#", "#", "#", " ">> THEN "h3"
    ELSE IF Len(b) >= 3 /\ SubSeq(b, 1, 3) = <<"#", "#", " ">> THEN "h2"
    ELSE IF Len(b) >= 2 /\ SubSeq(b, 1, 2) = <<"#", " ">> THEN "h1"
    ELSE IF Len(b) >= 2 /\ SubSeq(b, 1, 2) = <<"-", " ">> THEN "ul"
    ELSE "p"

IsItemLine(l) == Len(l) >= 2 /\ SubSeq(l, 1, 2) = <<"-", " ">>

\* the item text the claim gives a line of a bullet block
ItemText(l) == IF IsItemLine(l) THEN Drop(l, 2) ELSE l

RECURSIVE ItemsAsClaimed(_)
ItemsAsClaimed(lines) ==
    IF lines = <<>> THEN <<>>
    ELSE LiOpen \o ItemText(Head(lines)) \o LiClose \o ItemsAsClaimed(Tail(lines))

\* C15 as claimed: a report that is one bullet block without emphasis is
\* shown as one list with one item per line, in order; a line beginning
\* with "- " loses exactly that prefix and any other line keeps all its text.
C15_BulletItemsKeepText ==
    ( /\ Rendered
      /\ Kind(ReportIn) = "ul"
      /\ Count(ReportIn, "*") = 0
      /\ indexOf(ReportIn, <<"\n", "\n">>, 1) = 0 ) =>
        BodyOut = UlOpen \o ItemsAsClaimed(split(ReportIn, <<"\n">>)) \o UlClose

\* a text whose only asterisks are one "*" or one "**"
OnlyUnmatchedDelimiter(r) ==
    \/ Count(r, "*") = 1
    \/ /\ Count(r, "*") = 2
       /\ \E k \in 1..(Len(r) - 1) : r[k] = "*" /\ r[k + 1] = "*"

\* C16 as claimed: a one-line paragraph whose only asterisks are a single
\* "*" or a single "**" is shown with its text unchanged, no emphasis node.
C16_UnmatchedDelimiterLiteral ==
    ( /\ Rendered
      /\ Kind(ReportIn) = "p"
      /\ Count(ReportIn, "\n") = 0
      /\ OnlyUnmatchedDelimiter(ReportIn) ) =>
        BodyOut = POpen \o ReportIn \o PClose

\* out is the rendering of the raw blocks, one block each, in order: a
\* heading of the block's level around the formatted text after the
\* prefix, a list (whatever its items), or a paragraph around the whole
\* formatted block
RECURSIVE BlocksMatch(_, _)
BlocksMatch(out, blocks) ==
    IF blocks = <<>> THEN out = <<>>
    ELSE LET b == Head(blocks)
             k == Kind(b)
             e == IF k = "h3" THEN H3Open \o formatInline(Drop(b, 4)) \o H3Close
                  ELSE IF k = "h2" THEN H2Open \o formatInline(Drop(b, 3)) \o H2Close
                  ELSE IF k = "h1" THEN H1Open \o formatInline(Drop(b, 2)) \o H1Close
                  ELSE POpen \o formatInline(b) \o PClose
             j == indexOf(out, UlClose, 1)
         IN  IF k = "ul"
             THEN /\ startsWith(out, UlOpen)
                  /\ j # 0
                  /\ BlocksMatch(Drop(out, j + Len(UlClose) - 1), Tail(blocks))
             ELSE /\ startsWith(out, e)
                  /\ BlocksMatch(Drop(out, Len(e)), Tail(blocks))

\* C17: the body is one block per part of the text between blank-line
\* separators, in order, classified by prefix: "### ", "## ", "# " give
\* headings of level 3, 2, 1 around the text after the prefix, a first
\* line beginning with "- " gives a list, anything else (the empty block
\* and "####" included) a paragraph around the whole block.
C17_BlocksClassifiedByPrefix ==
    Rendered => BlocksMatch(BodyOut, split(ReportIn, <<"\n", "\n">>))

\* a level-2 heading followed by an empty paragraph
C17_Witness ==
    /\ Rendered
    /\ ReportIn = <<"#", "#", " ", "\n", "\n">>
    /\ BodyOut = H2Open \o H2Close \o POpen \o PClose

\* every line of every bullet block of the text begins with "- "
RECURSIVE AllItemLines(_)
AllItemLines(lines) ==
    lines = <<>> \/ (IsItemLine(Head(lines)) /\ AllItemLines(Tail(lines)))

RECURSIVE BulletsWellFormed(_)
BulletsWellFormed(blocks) ==
    \/ blocks = <<>>
    \/ /\ Kind(Head(blocks)) = "ul" => AllItemLines(split(Head(blocks), <<"\n">>))
       /\ BulletsWellFormed(Tail(blocks))

\* classify first, format each payload afterwards
RECURSIVE FormattedItems(_)
FormattedItems(lines) ==
    IF lines = <<>> THEN <<>>
    ELSE LiOpen \o formatInline(Drop(Head(lines), 2)) \o LiClose
         \o FormattedItems(Tail(lines))

RECURSIVE ClassifyThenFormat(_)
ClassifyThenFormat(blocks) ==
    IF blocks = <<>> THEN <<>>
    ELSE LET b == Head(blocks)
             k == Kind(b)
         IN  (IF k = "h3" THEN H3Open \o formatInline(Drop(b, 4)) \o H3Close
              ELSE IF k = "h2" THEN H2Open \o formatInline(Drop(b, 3)) \o H2Close
              ELSE IF k = "h1" THEN H1Open \o formatInline(Drop(b, 2)) \o H1Close
              ELSE IF k = "ul"
                  THEN UlOpen \o FormattedItems(split(b, <<"\n">>)) \o UlClose
              ELSE POpen \o formatInline(b) \o PClose)
             \o ClassifyThenFormat(Tail(blocks))

\* C19: for a text whose bullet blocks have only lines beginning with "- ",
\* formatting the whole text and then splitting and classifying (the code's
\* order) gives the same body as splitting and classifying the raw text and
\* formatting each heading text, item and paragraph on its own.
C19_FormatCommutesWithClassify ==
    (Rendered /\ BulletsWellFormed(split(ReportIn, <<"\n", "\n">>))) =>
        BodyOut = ClassifyThenFormat(split(ReportIn, <<"\n", "\n">>))

\* an emphasised item in a well-formed bullet block
C19_Witness ==
    /\ Rendered
    /\ ReportIn = <<"-", " ", "*", "a", "*">>
    /\ BodyOut = UlOpen \o LiOpen \o EmOpen \o <<"a">> \o EmClose \o LiClose \o UlClose
====
